---------------------------- MODULE Spec2Model ----------------------------
(***************************************************************************)
(* Behaviour-based signal engine (behaviour/*.py): feature extraction,     *)
(* seven category evaluators, opportunity aggregation, level building and  *)
(* the gate chain of analyze_symbol_behaviour.                             *)
(*                                                                         *)
(* Numbers.  The source computes in binary floating point.  Here every     *)
(* float is a fixed-point integer with Q units to 1.0 (Q = 1000): a price  *)
(* of 100.0 is 100000, the ratio 1.3 is 1300, a score of 70 is 70000.      *)
(* Sums and differences are exact; a product or a quotient is floored to   *)
(* the next multiple of 1/Q (FMul, FDiv).  Candle prices are whole ticks   *)
(* (multiples of Q).  The literal 1e-9 of levels.py is the smallest        *)
(* positive fixed-point number (Eps); its products with 0.15 and 0.25 floor*)
(* to 0, which is what the float code computes once prices are large       *)
(* enough for 1e-10 to fall below the spacing of doubles.  At price 0 no   *)
(* float absorbs it, so flat candles at price 0 are not generated.         *)
(***************************************************************************)
EXTENDS Integers, Sequences, FiniteSets, TLC

\* fixed-point units to 1.0
Q == 10 * 10 * 10

Abs(x) == IF x < 0 THEN -x ELSE x
Max(a, b) == IF a >= b THEN a ELSE b
Min(a, b) == IF a <= b THEN a ELSE b

\* a * b and a / b of two fixed-point numbers
FMul(a, b) == (a * b) \div Q
FDiv(a, b) == (a * Q) \div b

RECURSIVE SumTo(_, _)
SumTo(s, i) == IF i = 0 THEN 0 ELSE s[i] + SumTo(s, i - 1)
\* sum(values)
Sum(s) == SumTo(s, Len(s))

RECURSIVE MinTo(_, _)
MinTo(s, i) == IF i = 1 THEN s[1] ELSE Min(s[i], MinTo(s, i - 1))
\* min(values), values non-empty
SeqMin(s) == MinTo(s, Len(s))

RECURSIVE MaxTo(_, _)
MaxTo(s, i) == IF i = 1 THEN s[1] ELSE Max(s[i], MaxTo(s, i - 1))
\* max(values), values non-empty
SeqMax(s) == MaxTo(s, Len(s))

\* number of indices of s at which the entry is TRUE
RECURSIVE CountTo(_, _)
CountTo(s, i) == IF i = 0 THEN 0 ELSE (IF s[i] THEN 1 ELSE 0) + CountTo(s, i - 1)
Count(s) == CountTo(s, Len(s))

(***************************************************************************)
(* behaviour_settings.py : BehaviourSettings defaults                      *)
(***************************************************************************)
min_candles == 40
feature_window == 40
htf_window == 12
flush_lookback == 20
flush_min_depth_ratio == 350
small_body_factor == 450
big_wick_ratio == 350
chop_weight_color_flip == 400
chop_weight_small_body == 300
chop_weight_two_sided_wick == 300
chop_high_threshold == 65000
chop_low_threshold == 35000
htf_drift_tolerance_pct == 150
min_score_to_send == 70000
a_plus_score == 85000
min_rr_tp2 == 1600
noise_lookback == 20
noise_wick_factor == 900
noise_range_factor == 600
max_risk_factor == 4000

\* BehaviourSettings.leverage_range_for_sl
leverage_range_for_sl(sl_pct) ==
    IF sl_pct <= 0 THEN <<5000, 10000>>
    ELSE IF sl_pct <= 250 THEN <<20000, 30000>>
    ELSE IF sl_pct <= 400 THEN <<15000, 25000>>
    ELSE IF sl_pct <= 700 THEN <<8000, 15000>>
    ELSE IF sl_pct <= 1500 THEN <<5000, 8000>>
    ELSE <<3000, 5000>>

(***************************************************************************)
(* features.py                                                             *)
(***************************************************************************)
_safe_mean(values) == IF values = << >> THEN 0 ELSE Sum(values) \div Len(values)

\* _window that returns the whole sequence
_window_all(candles, length) == candles

_window(candles, length) ==
    IF Len(candles) <= length THEN candles
    ELSE SubSeq(candles, Len(candles) - length + 1, Len(candles))

_body(c) == Abs(c.close - c.open)
_range(c) == c.high - c.low
_upper_wick(c) == c.high - Max(c.open, c.close)
_lower_wick(c) == Min(c.open, c.close) - c.low

_leg_flow(segment) ==
    LET b == [i \in 1..Len(segment) |-> segment[i].close - segment[i].open]
        bull_body == Sum([i \in 1..Len(segment) |-> IF b[i] > 0 THEN b[i] ELSE 0])
        bear_body == Sum([i \in 1..Len(segment) |-> IF b[i] < 0 THEN Abs(b[i]) ELSE 0])
    IN  [bull_body_sum |-> bull_body,
         bear_body_sum |-> bear_body,
         bull_count |-> Count([i \in 1..Len(segment) |-> b[i] > 0]),
         bear_count |-> Count([i \in 1..Len(segment) |-> b[i] < 0]),
         net_flow |-> bull_body - bear_body]

_trend_from_halves(values) ==
    LET n == Len(values)
        mid == n \div 2
        first == _safe_mean(SubSeq(values, 1, mid))
        second == _safe_mean(SubSeq(values, mid + 1, n))
    IN  IF n < 4 THEN 0
        ELSE IF first <= 0 THEN 0
        ELSE FDiv(second, first) - Q

_wick_bias(avg_up, avg_down) ==
    IF avg_up <= 0 /\ avg_down <= 0 THEN "mixed"
    ELSE IF avg_down > FMul(1300, avg_up) THEN "buy"
    ELSE IF avg_up > FMul(1300, avg_down) THEN "sell"
    ELSE "mixed"

_compute_basic_stats(segment) ==
    LET bodies == [i \in 1..Len(segment) |-> _body(segment[i])]
        ranges == [i \in 1..Len(segment) |-> _range(segment[i])]
        up_wicks == [i \in 1..Len(segment) |-> _upper_wick(segment[i])]
        dn_wicks == [i \in 1..Len(segment) |-> _lower_wick(segment[i])]
    IN  [avg_body |-> _safe_mean(bodies),
         avg_range |-> _safe_mean(ranges),
         avg_up_wick |-> _safe_mean(up_wicks),
         avg_down_wick |-> _safe_mean(dn_wicks),
         body_trend |-> _trend_from_halves(bodies),
         range_trend |-> _trend_from_halves(ranges)]

NoFlush ==
    [has_flush_down |-> FALSE, has_flush_up |-> FALSE,
     flush_depth_down |-> 0, flush_depth_up |-> 0]

_detect_flush(candles, avg_range, lookback) ==
    LET n == Len(candles)
        last == candles[n]
        \* candles[-(lookback + 1):-1]
        src == SubSeq(candles, n - lookback, n - 1)
        prev_min_low == SeqMin([i \in 1..Len(src) |-> src[i].low])
        prev_max_high == SeqMax([i \in 1..Len(src) |-> src[i].high])
        depth_down_ratio == FDiv(Max(0, prev_min_low - last.low), avg_range)
        depth_up_ratio == FDiv(Max(0, last.high - prev_max_high), avg_range)
    IN  IF n < lookback + 2 \/ avg_range <= 0 THEN NoFlush
        ELSE IF src = << >> THEN NoFlush
        ELSE [has_flush_down |-> depth_down_ratio >= flush_min_depth_ratio,
              has_flush_up |-> depth_up_ratio >= flush_min_depth_ratio,
              flush_depth_down |-> depth_down_ratio,
              flush_depth_up |-> depth_up_ratio]

_sign(x) == IF x > 0 THEN 1 ELSE IF x < 0 THEN -1 ELSE 0

\* the colour-flip loop of _compute_chop_score: <<flips, prev_sign>> after
\* the first i candles
RECURSIVE FlipsTo(_, _)
FlipsTo(segment, i) ==
    IF i = 0 THEN <<0, 0>>
    ELSE LET p == FlipsTo(segment, i - 1)
             sign == _sign(segment[i].close - segment[i].open)
         IN  <<p[1] + (IF p[2] # 0 /\ sign # 0 /\ sign # p[2] THEN 1 ELSE 0),
               IF sign # 0 THEN sign ELSE p[2]>>

_compute_chop_score(segment, avg_body) ==
    LET n == Len(segment)
        flips == FlipsTo(segment, n)[1]
        color_flip_ratio == FDiv(flips * Q, Max(n - 1, 1) * Q)
        small_body_count ==
            Count([i \in 1..n |-> _body(segment[i]) < FMul(small_body_factor, avg_body)])
        small_body_ratio == FDiv(small_body_count * Q, n * Q)
        two_sided_count ==
            Count([i \in 1..n |->
                     /\ _range(segment[i]) > 0
                     /\ FDiv(_upper_wick(segment[i]), _range(segment[i])) >= big_wick_ratio
                     /\ FDiv(_lower_wick(segment[i]), _range(segment[i])) >= big_wick_ratio])
        two_sided_ratio == FDiv(two_sided_count * Q, n * Q)
        raw == FMul(chop_weight_color_flip, color_flip_ratio)
               + FMul(chop_weight_small_body, small_body_ratio)
               + FMul(chop_weight_two_sided_wick, two_sided_ratio)
    IN  IF n < 5 \/ avg_body <= 0 THEN 0
        ELSE Max(0, Min(FMul(raw, 100 * Q), 100 * Q))

\* <<micro_low, micro_high, pos>>
_compute_micro_range(segment) ==
    LET micro_high == SeqMax([i \in 1..Len(segment) |-> segment[i].high])
        micro_low == SeqMin([i \in 1..Len(segment) |-> segment[i].low])
        last_price == segment[Len(segment)].close
        p == FDiv(last_price - micro_low, micro_high - micro_low)
    IN  IF segment = << >> THEN <<0, 0, 500>>
        ELSE IF micro_high <= micro_low THEN <<micro_low, micro_high, 500>>
        ELSE <<micro_low, micro_high, IF p < 0 THEN 0 ELSE IF p > Q THEN Q ELSE p>>

\* _compute_htf_virtual asking a net flow above 1.25 x the larger body sum
_compute_htf_virtual_dom_margin(candles) ==
    LET seg == _window(candles, htf_window)
        flow == _leg_flow(seg)
        bull_body == flow.bull_body_sum
        bear_body == flow.bear_body_sum
        net_flow == flow.net_flow
        dom == IF net_flow > FMul(Max(bull_body, bear_body), 1250) THEN "bull"
               ELSE IF net_flow < FMul(-Max(bull_body, bear_body), 250) THEN "bear"
               ELSE "none"
        first_close == seg[1].close
        last_close == seg[Len(seg)].close
        pct == FMul(FDiv(last_close - first_close, first_close), 100 * Q)
        drift == IF first_close > 0
                 THEN (IF pct > htf_drift_tolerance_pct THEN "up"
                       ELSE IF pct < -htf_drift_tolerance_pct THEN "down"
                       ELSE "flat")
                 ELSE "flat"
        ranges == [i \in 1..Len(seg) |-> _range(seg[i])]
        mid == Len(ranges) \div 2
        r1 == _safe_mean(SubSeq(ranges, 1, mid))
        r2 == _safe_mean(SubSeq(ranges, mid + 1, Len(ranges)))
        ratio == FDiv(r2, r1)
        vol_mode == IF Len(ranges) >= 4 /\ r1 > 0
                    THEN (IF ratio > 1150 THEN "expand"
                          ELSE IF ratio < 850 THEN "contract"
                          ELSE "normal")
                    ELSE "normal"
        avg_up == _safe_mean([i \in 1..Len(seg) |-> _upper_wick(seg[i])])
        avg_dn == _safe_mean([i \in 1..Len(seg) |-> _lower_wick(seg[i])])
    IN  IF Len(seg) < 4
        THEN [htf_dom |-> "none", htf_drift |-> "flat",
              htf_vol_mode |-> "normal", htf_wick_bias |-> "mixed"]
        ELSE [htf_dom |-> dom, htf_drift |-> drift,
              htf_vol_mode |-> vol_mode, htf_wick_bias |-> _wick_bias(avg_up, avg_dn)]

_compute_htf_virtual(candles) ==
    LET seg == _window(candles, htf_window)
        flow == _leg_flow(seg)
        bull_body == flow.bull_body_sum
        bear_body == flow.bear_body_sum
        net_flow == flow.net_flow
        dom == IF net_flow > FMul(Max(bull_body, bear_body), 250) THEN "bull"
               ELSE IF net_flow < FMul(-Max(bull_body, bear_body), 250) THEN "bear"
               ELSE "none"
        first_close == seg[1].close
        last_close == seg[Len(seg)].close
        pct == FMul(FDiv(last_close - first_close, first_close), 100 * Q)
        drift == IF first_close > 0
                 THEN (IF pct > htf_drift_tolerance_pct THEN "up"
                       ELSE IF pct < -htf_drift_tolerance_pct THEN "down"
                       ELSE "flat")
                 ELSE "flat"
        ranges == [i \in 1..Len(seg) |-> _range(seg[i])]
        mid == Len(ranges) \div 2
        r1 == _safe_mean(SubSeq(ranges, 1, mid))
        r2 == _safe_mean(SubSeq(ranges, mid + 1, Len(ranges)))
        ratio == FDiv(r2, r1)
        vol_mode == IF Len(ranges) >= 4 /\ r1 > 0
                    THEN (IF ratio > 1150 THEN "expand"
                          ELSE IF ratio < 850 THEN "contract"
                          ELSE "normal")
                    ELSE "normal"
        avg_up == _safe_mean([i \in 1..Len(seg) |-> _upper_wick(seg[i])])
        avg_dn == _safe_mean([i \in 1..Len(seg) |-> _lower_wick(seg[i])])
    IN  IF Len(seg) < 4
        THEN [htf_dom |-> "none", htf_drift |-> "flat",
              htf_vol_mode |-> "normal", htf_wick_bias |-> "mixed"]
        ELSE [htf_dom |-> dom, htf_drift |-> drift,
              htf_vol_mode |-> vol_mode, htf_wick_bias |-> _wick_bias(avg_up, avg_dn)]

\* the empty dict {} that compute_features returns for an empty window
EmptyFeatures == [empty |-> TRUE]
IsEmptyFeatures(f) == "empty" \in DOMAIN f

compute_features(candles_5m) ==
    LET segment == _window(candles_5m, feature_window)
        basic == _compute_basic_stats(segment)
        flow == _leg_flow(segment)
        micro == _compute_micro_range(segment)
        flush == _detect_flush(segment, basic.avg_range, flush_lookback)
        htf == _compute_htf_virtual(candles_5m)
    IN  IF candles_5m = << >> THEN EmptyFeatures
        ELSE [bull_body_sum |-> flow.bull_body_sum,
              bear_body_sum |-> flow.bear_body_sum,
              bull_count |-> flow.bull_count,
              bear_count |-> flow.bear_count,
              net_flow |-> flow.net_flow,
              avg_body |-> basic.avg_body,
              avg_range |-> basic.avg_range,
              body_trend |-> basic.body_trend,
              range_trend |-> basic.range_trend,
              avg_up_wick |-> basic.avg_up_wick,
              avg_down_wick |-> basic.avg_down_wick,
              wick_bias |-> _wick_bias(basic.avg_up_wick, basic.avg_down_wick),
              micro_low |-> micro[1],
              micro_high |-> micro[2],
              pos_in_range |-> micro[3],
              last_price |-> segment[Len(segment)].close,
              has_flush_down |-> flush.has_flush_down,
              has_flush_up |-> flush.has_flush_up,
              flush_depth_down |-> flush.flush_depth_down,
              flush_depth_up |-> flush.flush_depth_up,
              chop_score |-> _compute_chop_score(segment, basic.avg_body),
              htf_dom |-> htf.htf_dom,
              htf_drift |-> htf.htf_drift,
              htf_vol_mode |-> htf.htf_vol_mode,
              htf_wick_bias |-> htf.htf_wick_bias]

(***************************************************************************)
(* categories.py : a category result is [score, bias], bias "none" for the *)
(* source's None                                                           *)
(***************************************************************************)
NoCat == [score |-> 0, bias |-> "none"]

eval_elr(features) ==
    LET net_flow == features.net_flow
        body_trend == features.body_trend
        wick_bias == features.wick_bias
        pos_in_range == features.pos_in_range
        chop_score == features.chop_score
        total_candles == features.bull_count + features.bear_count
        leg_strength == FDiv(Abs(net_flow), Max(total_candles, 1) * Q)
        long_leg == /\ net_flow < 0
                    /\ body_trend < -50
                    /\ wick_bias \in {"buy", "mixed"}
                    /\ pos_in_range <= 350
        short_leg == /\ net_flow > 0
                     /\ body_trend < -50
                     /\ wick_bias \in {"sell", "mixed"}
                     /\ pos_in_range >= 650
        score0 == IF long_leg THEN 15000 + Max(0, FMul(350 - pos_in_range, 40000))
                  ELSE IF short_leg THEN 15000 + Max(0, FMul(pos_in_range - 650, 40000))
                  ELSE 0
        bias == IF long_leg THEN "long" ELSE IF short_leg THEN "short" ELSE "none"
        score1 == IF score0 > 0 /\ chop_score > chop_high_threshold
                  THEN FMul(score0, 400) ELSE score0
    IN  IF total_candles < 6 THEN NoCat
        ELSE IF leg_strength <= 0 THEN NoCat
        ELSE [score |-> Max(0, Min(score1, 25000)), bias |-> bias]

\* eval_far without the final clamp to [0, 30]
eval_far_unclamped(features) ==
    LET cand_long == features.has_flush_down /\ features.pos_in_range <= 400
        s1 == IF cand_long
              THEN 18000 + FMul(features.flush_depth_down, 20000)
                   + (IF features.wick_bias = "buy" THEN 4000
                      ELSE IF features.wick_bias = "mixed" THEN 1000 ELSE 0)
              ELSE 0
        cand_short == features.has_flush_up /\ features.pos_in_range >= 600
        s2 == 18000 + FMul(features.flush_depth_up, 20000)
              + (IF features.wick_bias = "sell" THEN 4000
                 ELSE IF features.wick_bias = "mixed" THEN 1000 ELSE 0)
        take_short == cand_short /\ s2 > s1
        score0 == IF take_short THEN s2 ELSE s1
    IN  [score |-> IF score0 > 0 /\ features.chop_score > chop_high_threshold
                   THEN FMul(score0, 500) ELSE score0,
         bias |-> IF take_short THEN "short" ELSE IF cand_long THEN "long" ELSE "none"]

eval_far(features) ==
    LET has_fd == features.has_flush_down
        has_fu == features.has_flush_up
        depth_down == features.flush_depth_down
        depth_up == features.flush_depth_up
        pos_in_range == features.pos_in_range
        wick_bias == features.wick_bias
        chop_score == features.chop_score
        cand_long == has_fd /\ pos_in_range <= 400
        s1 == IF cand_long
              THEN 18000 + FMul(depth_down, 20000)
                   + (IF wick_bias = "buy" THEN 4000
                      ELSE IF wick_bias = "mixed" THEN 1000 ELSE 0)
              ELSE 0
        cand_short == has_fu /\ pos_in_range >= 600
        s2 == 18000 + FMul(depth_up, 20000)
              + (IF wick_bias = "sell" THEN 4000
                 ELSE IF wick_bias = "mixed" THEN 1000 ELSE 0)
        take_short == cand_short /\ s2 > s1
        score0 == IF take_short THEN s2 ELSE s1
        bias == IF take_short THEN "short" ELSE IF cand_long THEN "long" ELSE "none"
        score1 == IF score0 > 0 /\ chop_score > chop_high_threshold
                  THEN FMul(score0, 500) ELSE score0
    IN  [score |-> Max(0, Min(score1, 30000)), bias |-> bias]

eval_cec(features) ==
    LET net_flow == features.net_flow
        body_trend == features.body_trend
        range_trend == features.range_trend
        htf_dom == features.htf_dom
        htf_drift == features.htf_drift
        chop_score == features.chop_score
        bias == IF net_flow > 0 THEN "long" ELSE "short"
        base == 10000
                + (IF bias = "long"
                   THEN (IF htf_dom = "bull" \/ htf_drift = "up" THEN 6000 ELSE 0)
                   ELSE (IF htf_dom = "bear" \/ htf_drift = "down" THEN 6000 ELSE 0))
                + (IF body_trend > -200 THEN 2000 ELSE 0)
        score == IF chop_score > chop_high_threshold THEN FMul(base, 300) ELSE base
    IN  IF Abs(net_flow) <= 0 THEN NoCat
        ELSE IF range_trend >= -50 THEN NoCat
        ELSE [score |-> Max(0, Min(score, 20000)), bias |-> bias]

eval_mc(features) ==
    LET net_flow == features.net_flow
        body_trend == features.body_trend
        wick_bias == features.wick_bias
        chop_score == features.chop_score
        base == IF chop_score > chop_high_threshold THEN FMul(8000, 500) ELSE 8000
    IN  IF Abs(net_flow) <= 0 THEN NoCat
        ELSE IF body_trend > -200 THEN NoCat
        ELSE IF wick_bias # "mixed" THEN NoCat
        ELSE [score |-> Max(0, Min(base, 12000)), bias |-> "none"]

eval_vsde(features) ==
    LET net_flow == features.net_flow
        range_trend == features.range_trend
        htf_drift == features.htf_drift
        chop_score == features.chop_score
        bias == IF net_flow > 0 THEN "long" ELSE IF net_flow < 0 THEN "short" ELSE "none"
        base0 == 7000
                 + (IF bias = "long" /\ htf_drift = "up" THEN 3000
                    ELSE IF bias = "short" /\ htf_drift = "down" THEN 3000 ELSE 0)
        base == IF chop_score > chop_high_threshold THEN FMul(base0, 400) ELSE base0
    IN  IF range_trend > -100 THEN NoCat
        ELSE [score |-> Max(0, Min(base, 12000)), bias |-> bias]

eval_awp(features) ==
    LET avg_up == features.avg_up_wick
        avg_dn == features.avg_down_wick
        wick_bias == features.wick_bias
        chop_score == features.chop_score
        base == IF wick_bias = "buy"
                THEN (IF avg_up > 0
                      THEN 6000 + FMul(Min(FDiv(avg_dn, avg_up), 3000), 2000)
                      ELSE 10000)
                ELSE (IF avg_dn > 0
                      THEN 6000 + FMul(Min(FDiv(avg_up, avg_dn), 3000), 2000)
                      ELSE 10000)
        score == IF chop_score > chop_high_threshold THEN FMul(base, 700) ELSE base
    IN  IF avg_up <= 0 /\ avg_dn <= 0 THEN NoCat
        ELSE IF wick_bias = "buy"
             THEN [score |-> Max(0, Min(score, 15000)), bias |-> "long"]
        ELSE IF wick_bias = "sell"
             THEN [score |-> Max(0, Min(score, 15000)), bias |-> "short"]
        ELSE NoCat

\* eval_hbp without the early return for htf_dom none
eval_hbp_no_dom_gate(features) ==
    LET htf_dom == features.htf_dom
        htf_drift == features.htf_drift
        htf_wick_bias == features.htf_wick_bias
        pivot_long == (htf_dom = "bear" \/ htf_drift = "down") /\ htf_wick_bias = "buy"
        pivot_short == (htf_dom = "bull" \/ htf_drift = "up") /\ htf_wick_bias = "sell"
        bias == IF pivot_short THEN (IF pivot_long THEN "none" ELSE "short")
                ELSE IF pivot_long THEN "long" ELSE "none"
        score == IF pivot_short THEN (IF pivot_long THEN 4000 ELSE 8000)
                 ELSE IF pivot_long THEN 8000 ELSE 0
    IN  [score |-> Max(0, Min(score, 10000)), bias |-> bias]

eval_hbp(features) ==
    LET htf_dom == features.htf_dom
        htf_drift == features.htf_drift
        htf_wick_bias == features.htf_wick_bias
        pivot_long == (htf_dom = "bear" \/ htf_drift = "down") /\ htf_wick_bias = "buy"
        pivot_short == (htf_dom = "bull" \/ htf_drift = "up") /\ htf_wick_bias = "sell"
        bias == IF pivot_short THEN (IF pivot_long THEN "none" ELSE "short")
                ELSE IF pivot_long THEN "long" ELSE "none"
        score == IF pivot_short THEN (IF pivot_long THEN 4000 ELSE 8000)
                 ELSE IF pivot_long THEN 8000 ELSE 0
    IN  IF htf_dom = "none" THEN NoCat
        ELSE [score |-> Max(0, Min(score, 10000)), bias |-> bias]

CatNames == {"elr", "far", "cec", "mc", "vsde", "awp", "hbp"}

eval_all_categories(features) ==
    [elr |-> eval_elr(features),
     far |-> eval_far(features),
     cec |-> eval_cec(features),
     mc |-> eval_mc(features),
     vsde |-> eval_vsde(features),
     awp |-> eval_awp(features),
     hbp |-> eval_hbp(features)]

(***************************************************************************)
(* scoring.py                                                              *)
(***************************************************************************)
\* the sum of the scores of the categories whose bias is b
BiasSum(cats, b) ==
    (IF cats.elr.bias = b THEN cats.elr.score ELSE 0)
    + (IF cats.far.bias = b THEN cats.far.score ELSE 0)
    + (IF cats.cec.bias = b THEN cats.cec.score ELSE 0)
    + (IF cats.mc.bias = b THEN cats.mc.score ELSE 0)
    + (IF cats.vsde.bias = b THEN cats.vsde.score ELSE 0)
    + (IF cats.awp.bias = b THEN cats.awp.score ELSE 0)
    + (IF cats.hbp.bias = b THEN cats.hbp.score ELSE 0)

\* _choose_direction with a margin that is not strict
_choose_direction_margin_inclusive(cats) ==
    LET bias_long_score == BiasSum(cats, "long")
        bias_short_score == BiasSum(cats, "short")
        direction ==
            IF bias_long_score < 1000 /\ bias_short_score < 1000 THEN "none"
            ELSE IF bias_long_score >= FMul(bias_short_score, 1300) THEN "long"
            ELSE IF bias_short_score >= FMul(bias_long_score, 1300) THEN "short"
            ELSE "none"
    IN  [direction |-> direction,
         bias_long_score |-> bias_long_score,
         bias_short_score |-> bias_short_score]

\* _choose_direction with the two direction labels exchanged
_choose_direction_swapped(cats) ==
    LET bias_long_score == BiasSum(cats, "long")
        bias_short_score == BiasSum(cats, "short")
        direction ==
            IF bias_long_score < 1000 /\ bias_short_score < 1000 THEN "none"
            ELSE IF bias_long_score > FMul(bias_short_score, 1300) THEN "short"
            ELSE IF bias_short_score > FMul(bias_long_score, 1300) THEN "long"
            ELSE "none"
    IN  [direction |-> direction,
         bias_long_score |-> bias_long_score,
         bias_short_score |-> bias_short_score]

_choose_direction(cats) ==
    LET bias_long_score == BiasSum(cats, "long")
        bias_short_score == BiasSum(cats, "short")
        direction ==
            IF bias_long_score < 1000 /\ bias_short_score < 1000 THEN "none"
            ELSE IF bias_long_score > FMul(bias_short_score, 1300) THEN "long"
            ELSE IF bias_short_score > FMul(bias_long_score, 1300) THEN "short"
            ELSE "none"
    IN  [direction |-> direction,
         bias_long_score |-> bias_long_score,
         bias_short_score |-> bias_short_score]

\* aggregate_opportunity without the early return for direction None
aggregate_opportunity_no_early_return(features, cats) ==
    LET dir_info == _choose_direction(cats)
        direction == dir_info.direction
        base0 == IF direction = "long"
                 THEN dir_info.bias_long_score + FMul(500, cats.mc.score)
                 ELSE dir_info.bias_short_score + FMul(500, cats.mc.score)
        chop == features.chop_score
        base1 == IF chop >= chop_high_threshold THEN FMul(base0, 350)
                 ELSE IF chop >= chop_low_threshold THEN FMul(base0, 700)
                 ELSE base0
    IN  [score |-> Max(0, Min(base1, 150000)), direction |-> direction,
         components |-> cats,
         bias_long_score |-> dir_info.bias_long_score,
         bias_short_score |-> dir_info.bias_short_score]

\* aggregate_opportunity with strict chop thresholds
aggregate_opportunity_strict_chop(features, cats) ==
    LET dir_info == _choose_direction(cats)
        direction == dir_info.direction
        score_mc == cats.mc.score
        base0 == IF direction = "long"
                 THEN dir_info.bias_long_score + FMul(500, score_mc)
                 ELSE dir_info.bias_short_score + FMul(500, score_mc)
        chop == features.chop_score
        base1 == IF chop > chop_high_threshold THEN FMul(base0, 350)
                 ELSE IF chop > chop_low_threshold THEN FMul(base0, 700)
                 ELSE base0
        against_htf ==
            \/ direction = "long" /\ features.htf_dom = "bear" /\ features.htf_drift = "down"
            \/ direction = "short" /\ features.htf_dom = "bull" /\ features.htf_drift = "up"
        base2 == IF against_htf THEN FMul(base1, 600) ELSE base1
    IN  IF direction = "none"
        THEN [score |-> 0, direction |-> "none", components |-> cats,
              bias_long_score |-> dir_info.bias_long_score,
              bias_short_score |-> dir_info.bias_short_score]
        ELSE [score |-> Max(0, Min(base2, 150000)), direction |-> direction,
              components |-> cats,
              bias_long_score |-> dir_info.bias_long_score,
              bias_short_score |-> dir_info.bias_short_score]

aggregate_opportunity(features, cats) ==
    LET dir_info == _choose_direction(cats)
        direction == dir_info.direction
        score_mc == cats.mc.score
        base0 == IF direction = "long"
                 THEN dir_info.bias_long_score + FMul(500, score_mc)
                 ELSE dir_info.bias_short_score + FMul(500, score_mc)
        chop == features.chop_score
        base1 == IF chop >= chop_high_threshold THEN FMul(base0, 350)
                 ELSE IF chop >= chop_low_threshold THEN FMul(base0, 700)
                 ELSE base0
        against_htf ==
            \/ direction = "long" /\ features.htf_dom = "bear" /\ features.htf_drift = "down"
            \/ direction = "short" /\ features.htf_dom = "bull" /\ features.htf_drift = "up"
        base2 == IF against_htf THEN FMul(base1, 600) ELSE base1
    IN  IF direction = "none"
        THEN [score |-> 0, direction |-> "none", components |-> cats,
              bias_long_score |-> dir_info.bias_long_score,
              bias_short_score |-> dir_info.bias_short_score]
        ELSE [score |-> Max(0, Min(base2, 150000)), direction |-> direction,
              components |-> cats,
              bias_long_score |-> dir_info.bias_long_score,
              bias_short_score |-> dir_info.bias_short_score]

(***************************************************************************)
(* levels.py                                                               *)
(***************************************************************************)
\* the literal 1e-9 of rng = max(high - low, 1e-9): the smallest positive
\* fixed-point number
Eps == 1

\* <<rr1, rr2, rr3>>
_dynamic_rr_factors(score) ==
    LET s_norm == FDiv(Max(0, Min(score, 100 * Q)), 100 * Q)
        min_rr2 == min_rr_tp2
        max_rr2 == min_rr2 + 800
        rr2 == min_rr2 + FMul(max_rr2 - min_rr2, s_norm)
    IN  <<FMul(700, rr2), rr2, rr2 + 800>>

\* <<noise_floor_abs, avg_range_local>>
_compute_noise_floor(candles_5m, features) ==
    LET n == Len(candles_5m)
        start == Max(0, n - noise_lookback)
        segment == SubSeq(candles_5m, start + 1, n)
        \* the candles of the segment with r > 0, in order
        kept == SelectSeq(segment, LAMBDA c : c.high - c.low > 0)
        ranges == [i \in 1..Len(kept) |-> kept[i].high - kept[i].low]
        upper_wicks == [i \in 1..Len(kept) |-> kept[i].high - Max(kept[i].open, kept[i].close)]
        lower_wicks == [i \in 1..Len(kept) |-> Min(kept[i].open, kept[i].close) - kept[i].low]
        avg_range0 == Sum(ranges) \div Len(ranges)
        avg_upper == _safe_mean(upper_wicks)
        avg_lower == _safe_mean(lower_wicks)
        avg_wick == FMul(500, avg_upper + avg_lower)
        avg_range_local == IF avg_range0 <= 0 /\ features.avg_range > 0
                           THEN features.avg_range ELSE avg_range0
        wick_floor == IF avg_wick > 0 THEN FMul(noise_wick_factor, avg_wick) ELSE 0
        range_floor == IF avg_range_local > 0
                       THEN FMul(noise_range_factor, avg_range_local) ELSE 0
        floor == Max(wick_floor, range_floor)
    IN  IF n = 0 THEN <<0, 0>>
        ELSE IF segment = << >> THEN <<0, 0>>
        ELSE IF ranges = << >> THEN <<0, 0>>
        ELSE IF floor <= 0 THEN <<0, avg_range_local>>
        ELSE <<floor, avg_range_local>>

\* LevelEntry a quarter of the range inside the candle, the close ignored
LevelEntry_quarter_only(side, last) ==
    LET rng == Max(last.high - last.low, Eps)
        entry == IF side = "long" THEN last.low + FMul(250, rng)
                 ELSE last.high - FMul(250, rng)
    IN  IF entry = 0 THEN last.close ELSE entry

\* ENTRY: the entry price, with the entry == 0 fallback to the last close
LevelEntry(side, last) ==
    LET rng == Max(last.high - last.low, Eps)
        entry == IF side = "long" THEN Min(last.low + FMul(250, rng), last.close)
                 ELSE Max(last.high - FMul(250, rng), last.close)
    IN  IF entry = 0 THEN last.close ELSE entry

\* ENTRY: the raw stop beyond the candle, by the structure buffer
LevelRawStop(side, last, avg_range_feat) ==
    LET rng == Max(last.high - last.low, Eps)
        base_buffer == FMul(150, rng) + FMul(100, avg_range_feat)
    IN  IF side = "long" THEN last.low - base_buffer ELSE last.high + base_buffer

\* NoiseFloorStop that leaves the raw stop where it is
NoiseFloorStop_off(side, entry, sl_raw, noise_floor_abs) == sl_raw

\* 1) a risk below the noise floor: the stop is pushed away
NoiseFloorStop(side, entry, sl_raw, noise_floor_abs) ==
    IF noise_floor_abs > 0 /\ Abs(entry - sl_raw) < noise_floor_abs
    THEN (IF side = "long" THEN entry - noise_floor_abs ELSE entry + noise_floor_abs)
    ELSE sl_raw

\* VolatilityStop that places the capped stop on the profit side
VolatilityStop_wrong_side(side, entry, sl_raw, avg_range_local) ==
    LET max_risk_allowed == FMul(max_risk_factor, avg_range_local)
    IN  IF avg_range_local > 0 /\ Abs(entry - sl_raw) > max_risk_allowed
        THEN (IF side = "long" THEN entry + max_risk_allowed ELSE entry - max_risk_allowed)
        ELSE sl_raw

\* 2) a risk above max_risk_factor * avg_range_local: the stop is pulled in
VolatilityStop(side, entry, sl_raw, avg_range_local) ==
    LET max_risk_allowed == FMul(max_risk_factor, avg_range_local)
    IN  IF avg_range_local > 0 /\ Abs(entry - sl_raw) > max_risk_allowed
        THEN (IF side = "long" THEN entry - max_risk_allowed ELSE entry + max_risk_allowed)
        ELSE sl_raw

\* FinalLevels with sl_pct taken from the risk before the zero-risk fallback
FinalLevels_stale_sl_pct(side, entry, sl_raw, score) ==
    LET fallback == Abs(entry - sl_raw) <= 0
        risk == IF fallback THEN FMul(Abs(entry), 3) ELSE Abs(entry - sl_raw)
        sl_pct == IF entry # 0 THEN FMul(FDiv(Abs(entry - sl_raw), entry), 100 * Q) ELSE 0
        rr == _dynamic_rr_factors(score)
        lev == leverage_range_for_sl(sl_pct)
        sgn == IF side = "long" THEN 1 ELSE -1
    IN  [entry |-> entry,
         sl |-> IF fallback THEN entry - sgn * risk ELSE sl_raw,
         tp1 |-> entry + sgn * FMul(rr[1], risk),
         tp2 |-> entry + sgn * FMul(rr[2], risk),
         tp3 |-> entry + sgn * FMul(rr[3], risk),
         sl_pct |-> sl_pct,
         lev_min |-> lev[1],
         lev_max |-> lev[2]]

\* FinalLevels with the targets of a short placed as those of a long
FinalLevels_long_targets(side, entry, sl_raw, score) ==
    LET fallback == Abs(entry - sl_raw) <= 0
        risk == IF fallback THEN FMul(Abs(entry), 3) ELSE Abs(entry - sl_raw)
        sl_pct == IF entry # 0 THEN FMul(FDiv(risk, entry), 100 * Q) ELSE 0
        rr == _dynamic_rr_factors(score)
        lev == leverage_range_for_sl(sl_pct)
    IN  [entry |-> entry,
         sl |-> IF fallback
                THEN (IF side = "long" THEN entry - risk ELSE entry + risk)
                ELSE sl_raw,
         tp1 |-> entry + FMul(rr[1], risk),
         tp2 |-> entry + FMul(rr[2], risk),
         tp3 |-> entry + FMul(rr[3], risk),
         sl_pct |-> sl_pct,
         lev_min |-> lev[1],
         lev_max |-> lev[2]]

\* FinalLevels without the zero-risk fallback
FinalLevels_no_fallback(side, entry, sl_raw, score) ==
    LET risk == Abs(entry - sl_raw)
        sl_pct == IF entry # 0 THEN FMul(FDiv(risk, entry), 100 * Q) ELSE 0
        rr == _dynamic_rr_factors(score)
        lev == leverage_range_for_sl(sl_pct)
        sgn == IF side = "long" THEN 1 ELSE -1
    IN  [entry |-> entry,
         sl |-> sl_raw,
         tp1 |-> entry + sgn * FMul(rr[1], risk),
         tp2 |-> entry + sgn * FMul(rr[2], risk),
         tp3 |-> entry + sgn * FMul(rr[3], risk),
         sl_pct |-> sl_pct,
         lev_min |-> lev[1],
         lev_max |-> lev[2]]

\* FINAL SL & SL%, RR & TP, LEVERAGE
FinalLevels(side, entry, sl_raw, score) ==
    LET fallback == Abs(entry - sl_raw) <= 0
        risk == IF fallback THEN FMul(Abs(entry), 3) ELSE Abs(entry - sl_raw)
        sl == IF fallback
              THEN (IF side = "long" THEN entry - risk ELSE entry + risk)
              ELSE sl_raw
        sl_pct == IF entry # 0 THEN FMul(FDiv(risk, entry), 100 * Q) ELSE 0
        rr == _dynamic_rr_factors(score)
        lev == leverage_range_for_sl(sl_pct)
        sgn == IF side = "long" THEN 1 ELSE -1
    IN  [entry |-> entry,
         sl |-> sl,
         tp1 |-> entry + sgn * FMul(rr[1], risk),
         tp2 |-> entry + sgn * FMul(rr[2], risk),
         tp3 |-> entry + sgn * FMul(rr[3], risk),
         sl_pct |-> sl_pct,
         lev_min |-> lev[1],
         lev_max |-> lev[2]]

\* NOISE FLOOR & VOLATILITY: the stop after both adjustments
AdjustedStop(side, candles_5m, features) ==
    LET last == candles_5m[Len(candles_5m)]
        avg_range_feat == features.avg_range
        entry == LevelEntry(side, last)
        nf == _compute_noise_floor(candles_5m, features)
        avg_range_local == IF nf[2] <= 0 THEN avg_range_feat ELSE nf[2]
    IN  VolatilityStop(side, entry,
                       NoiseFloorStop(side, entry,
                                      LevelRawStop(side, last, avg_range_feat),
                                      nf[1]),
                       avg_range_local)

build_levels(side, candles_5m, features, opp) ==
    FinalLevels(side,
                LevelEntry(side, candles_5m[Len(candles_5m)]),
                AdjustedStop(side, candles_5m, features),
                opp.score)

(***************************************************************************)
(* analyzer.py.  state.min_tier and state.debug of core.bot_state are      *)
(* passed explicitly; min_tier "" stands for an unset (falsy) value.       *)
(***************************************************************************)
\* _tier_from_score with > in place of >=
_tier_from_score_strict(score) ==
    IF score > a_plus_score THEN "A+"
    ELSE IF score > min_score_to_send + 10000 THEN "A"
    ELSE IF score > min_score_to_send THEN "B"
    ELSE "NONE"

_tier_from_score(score) ==
    IF score >= a_plus_score THEN "A+"
    ELSE IF score >= min_score_to_send + 10000 THEN "A"
    ELSE IF score >= min_score_to_send THEN "B"
    ELSE "NONE"

\* order.get(t, default) of _should_send_tier
TierOrder(t, default) ==
    IF t = "NONE" THEN 0
    ELSE IF t = "B" THEN 1
    ELSE IF t = "A" THEN 2
    ELSE IF t = "A+" THEN 3
    ELSE default

_should_send_tier(tier, state_min_tier) ==
    LET min_tier == IF state_min_tier = "" THEN "A" ELSE state_min_tier
    IN  TierOrder(tier, 0) >= TierOrder(min_tier, 2)

_is_strong_bull_env(features) ==
    LET strong_leg == /\ features.bull_count * Q > FMul(features.bear_count * Q, 1200)
                      /\ features.net_flow > 0
        strong_htf == features.htf_dom = "bull" /\ features.htf_drift = "up"
    IN  strong_leg \/ strong_htf

_is_strong_bear_env(features) ==
    LET strong_leg == /\ features.bear_count * Q > FMul(features.bull_count * Q, 1200)
                      /\ features.net_flow < 0
        strong_htf == features.htf_dom = "bear" /\ features.htf_drift = "down"
    IN  strong_leg \/ strong_htf

\* the filter with the short branch testing the bear environment
_fails_anti_countertrend_filter_bear_only(side, features) ==
    IF side = "long"
    THEN _is_strong_bear_env(features) /\ ~features.has_flush_down
    ELSE IF side = "short"
    THEN _is_strong_bear_env(features) /\ ~features.has_flush_up
    ELSE FALSE

_fails_anti_countertrend_filter(side, features) ==
    IF side = "long"
    THEN _is_strong_bear_env(features) /\ ~features.has_flush_down
    ELSE IF side = "short"
    THEN _is_strong_bull_env(features) /\ ~features.has_flush_up
    ELSE FALSE

\* the return value None, and the value of a cycle that has not run
NoSignal == [kind |-> "none"]
Pending == [kind |-> "pending"]

\* symbol.upper()
Upper(symbol) ==
    IF symbol = "btcusdt" THEN "BTCUSDT"
    ELSE IF symbol = "ethusdt" THEN "ETHUSDT"
    ELSE symbol

\* steps 8-10 of analyze_symbol_behaviour: tier, min-tier filter and the
\* returned record (the rendered message text is left out)
EmitRecord(symbol, side, features, cats, score, levels, state_min_tier) ==
    LET tier == _tier_from_score(score)
    IN  IF ~_should_send_tier(tier, state_min_tier) THEN NoSignal
        ELSE [kind |-> "signal",
              symbol |-> Upper(symbol),
              side |-> side,
              entry |-> levels.entry,
              sl |-> levels.sl,
              tp1 |-> levels.tp1,
              tp2 |-> levels.tp2,
              tp3 |-> levels.tp3,
              sl_pct |-> levels.sl_pct,
              lev_min |-> levels.lev_min,
              lev_max |-> levels.lev_max,
              tier |-> tier,
              score |-> score,
              htf_context |-> [htf_dom |-> features.htf_dom,
                               htf_drift |-> features.htf_drift,
                               htf_vol_mode |-> features.htf_vol_mode,
                               htf_wick_bias |-> features.htf_wick_bias],
              categories |-> cats,
              features |-> features]

\* steps 6-7: build the levels and validate the RR of TP2
LevelsGate(symbol, side, candles_5m, features, cats, opp, state_min_tier) ==
    LET levels == build_levels(side, candles_5m, features, opp)
        risk == Abs(levels.entry - levels.sl)
        rr_tp2 == FDiv(Abs(levels.tp2 - levels.entry), risk)
    IN  IF risk <= 0 THEN NoSignal
        ELSE IF rr_tp2 < min_rr_tp2 THEN NoSignal
        ELSE EmitRecord(symbol, side, features, cats, opp.score, levels, state_min_tier)

\* analyze_symbol_behaviour without the min_candles gate
analyze_symbol_behaviour_no_len_gate(symbol, candles_5m, state_min_tier, state_debug) ==
    LET features == compute_features(candles_5m)
        cats == eval_all_categories(features)
        opp == aggregate_opportunity(features, cats)
        side == IF opp.direction = "long" THEN "long" ELSE "short"
    IN  IF IsEmptyFeatures(features) THEN NoSignal
        ELSE IF opp.direction = "none" THEN NoSignal
        ELSE IF opp.score < min_score_to_send THEN NoSignal
        ELSE IF _fails_anti_countertrend_filter(side, features) THEN NoSignal
        ELSE LevelsGate(symbol, side, candles_5m, features, cats, opp, state_min_tier)

\* analyze_symbol_behaviour without the minimum-score gate of step 4
analyze_symbol_behaviour_no_score_gate(symbol, candles_5m, state_min_tier, state_debug) ==
    LET features == compute_features(candles_5m)
        cats == eval_all_categories(features)
        opp == aggregate_opportunity(features, cats)
        side == IF opp.direction = "long" THEN "long" ELSE "short"
    IN  IF Len(candles_5m) < min_candles THEN NoSignal
        ELSE IF IsEmptyFeatures(features) THEN NoSignal
        ELSE IF opp.direction = "none" THEN NoSignal
        ELSE IF _fails_anti_countertrend_filter(side, features) THEN NoSignal
        ELSE LevelsGate(symbol, side, candles_5m, features, cats, opp, state_min_tier)

analyze_symbol_behaviour(symbol, candles_5m, state_min_tier, state_debug) ==
    LET features == compute_features(candles_5m)
        cats == eval_all_categories(features)
        opp == aggregate_opportunity(features, cats)
        score == opp.score
        direction == opp.direction
        side == IF direction = "long" THEN "long" ELSE "short"
    IN  IF Len(candles_5m) < min_candles THEN NoSignal
        ELSE IF IsEmptyFeatures(features) THEN NoSignal
        ELSE IF direction = "none" THEN NoSignal
        ELSE IF score < min_score_to_send THEN NoSignal
        ELSE IF _fails_anti_countertrend_filter(side, features) THEN NoSignal
        ELSE LevelsGate(symbol, side, candles_5m, features, cats, opp, state_min_tier)

(***************************************************************************)
(* The candle buffer of one symbol.  A candle is given by its shape        *)
(* relative to the previous close, in ticks: the gap of its open, its      *)
(* signed body and its two wicks.                                          *)
(***************************************************************************)
BasePrice == 100 * Q

MkCandle(prev_close, sh) ==
    LET o == prev_close + sh.gap * Q
        c == o + sh.body * Q
    IN  [open |-> o, close |-> c,
         high |-> Max(o, c) + sh.up * Q,
         low |-> Min(o, c) - sh.dn * Q]

LastClose(cs) == IF cs = << >> THEN BasePrice ELSE cs[Len(cs)].close

RECURSIVE Run(_, _, _)
\* cs followed by k candles of shape sh
Run(cs, sh, k) ==
    IF k = 0 THEN cs ELSE Run(Append(cs, MkCandle(LastClose(cs), sh)), sh, k - 1)

ShapeA == [gap |-> 1, body |-> -1, up |-> 1, dn |-> 3]
ShapeB == [gap |-> -2, body |-> 1, up |-> 0, dn |-> 0]
ShapeC == [gap |-> 4, body |-> -2, up |-> 1, dn |-> 7]
Shapes == {ShapeA, ShapeB, ShapeC}

\* the buffers the collaborator may hold when the run starts: empty, a few
\* bars, or a runs of ShapeA followed by b runs of ShapeB
HistoryRuns ==
    {<<0, 0>>, <<2, 1>>} \cup {<<a, b>> : a \in 12..14, b \in 24..27}

History(ab) == Run(Run(<< >>, ShapeA, ab[1]), ShapeB, ab[2])

\* bar closes per run
MaxBars == 2

\* the values of state.min_tier: unset, and the four tiers
MinTiers == {"", "NONE", "B", "A", "A+"}

Symbol == "btcusdt"

VARIABLES
    candles,    \* the candle buffer handed to the cycle (oldest first)
    closed,     \* bars closed since the run started
    min_tier,   \* core.bot_state.state.min_tier
    debug,      \* core.bot_state.state.debug
    result,     \* what the last cycle on the current input returned
    features,   \* the feature record handed to the function under study
    cats,       \* the seven category results
    opp,        \* the aggregated opportunity
    side,       \* the candidate side, "none" before a function was applied
    rejected,   \* what _fails_anti_countertrend_filter returned
    levels,     \* what build_levels returned
    tier,       \* what _tier_from_score returned
    cycle       \* per symbol, the cycle in progress: its position and locals

vars == <<candles, closed, min_tier, debug, result,
          features, cats, opp, side, rejected, levels, tier, cycle>>

\* the variables of the function-level specifications
probe == <<features, cats, opp, side, rejected, levels, tier, cycle>>

\* no cycle is in progress
NoCycles == << >>

NoCats == [k \in CatNames |-> NoCat]
NoOpp == [score |-> 0, direction |-> "none"]

ProbeIdle ==
    /\ features = EmptyFeatures
    /\ cats = NoCats
    /\ opp = NoOpp
    /\ side = "none"
    /\ rejected = FALSE
    /\ levels = Pending
    /\ tier = "NONE"
    /\ cycle = NoCycles

Init ==
    /\ candles \in {History(ab) : ab \in HistoryRuns}
    /\ closed = 0
    /\ min_tier = ""
    /\ debug = FALSE
    /\ result = Pending
    /\ ProbeIdle

\* the collaborator's buffer takes the bar that just closed
AppendCandle(sh) ==
    /\ closed < MaxBars
    /\ candles' = Append(candles, MkCandle(LastClose(candles), sh))
    /\ closed' = closed + 1
    /\ result' = Pending
    /\ UNCHANGED <<min_tier, debug>>
    /\ UNCHANGED probe

\* the collaborator sets the minimum tier
SetMinTier(t) ==
    /\ t # min_tier
    /\ min_tier' = t
    /\ result' = Pending
    /\ UNCHANGED <<candles, closed, debug>>
    /\ UNCHANGED probe

\* the collaborator switches the debug flag
SetDebug(b) ==
    /\ b # debug
    /\ debug' = b
    /\ result' = Pending
    /\ UNCHANGED <<candles, closed, min_tier>>
    /\ UNCHANGED probe

\* one cycle: analyze_symbol_behaviour(symbol, candles_5m)
Analyze ==
    /\ result' = analyze_symbol_behaviour(Symbol, candles, min_tier, debug)
    /\ UNCHANGED <<candles, closed, min_tier, debug>>
    /\ UNCHANGED probe

Next ==
    \/ \E sh \in Shapes : AppendCandle(sh)
    \/ \E t \in MinTiers : SetMinTier(t)
    \/ \E b \in BOOLEAN : SetDebug(b)
    \/ Analyze

Spec == Init /\ [][Next]_vars

(***************************************************************************)
(* The functions of the chain applied one by one to the feature record of  *)
(* a window: compute_features, eval_all_categories, aggregate_opportunity  *)
(* and _fails_anti_countertrend_filter for either candidate side.          *)
(***************************************************************************)
BullBig == [gap |-> 0, body |-> 4, up |-> 0, dn |-> 0]
BearSmall == [gap |-> 0, body |-> -1, up |-> 0, dn |-> 0]
Doji == [gap |-> 0, body |-> 0, up |-> 2, dn |-> 2]
BearPin == [gap |-> 0, body |-> -2, up |-> 0, dn |-> 5]
BullPin == [gap |-> 0, body |-> 1, up |-> 4, dn |-> 0]
FeatShapes == {BullBig, BearSmall, Doji, BearPin, BullPin}

\* two spinning tops of opposite colour, wicks on both sides
SpinUp == [gap |-> 0, body |-> 1, up |-> 4, dn |-> 6]
SpinDn == [gap |-> 0, body |-> -1, up |-> 4, dn |-> 6]

RECURSIVE Chop(_, _)
\* cs followed by k pairs SpinUp, SpinDn
Chop(cs, k) ==
    IF k = 0 THEN cs ELSE Chop(Run(Run(cs, SpinUp, 1), SpinDn, 1), k - 1)

\* bars that open on the previous close, close higher and have no wicks
Rise3 == [gap |-> 0, body |-> 3, up |-> 0, dn |-> 0]
Rise1 == [gap |-> 0, body |-> 1, up |-> 0, dn |-> 0]
\* the same bar opening 39900 ticks above the base price
HighStart == [gap |-> 39900, body |-> 3, up |-> 0, dn |-> 0]

\* a bar of shape first, 38 bars rising by 3 and a last bar rising by 1
RisingWindow(first) == Run(Run(Run(<< >>, first, 1), Rise3, 38), Rise1, 1)

\* wide two-sided bars, then narrow bars of alternating colour: the ranges
\* contract and the bodies cancel
Squeeze ==
    Run(Run(Run(Run(Chop(<< >>, 2), Rise1, 1), BearSmall, 1), Rise1, 1), BearSmall, 1)

\* short windows of two runs, and windows one bar short of min_candles
FeatHistories ==
    {Run(Run(<< >>, s1, 3), s2, b) : s1 \in FeatShapes, s2 \in FeatShapes, b \in 2..3}
    \cup {History(<<13, 26>>), History(<<13, 27>>),
          Run(Run(<< >>, BullPin, 20), BearSmall, 19),
          Run(Run(<< >>, Doji, 19), BullBig, 20),
          Chop(<< >>, 3), Chop(<< >>, 4), Chop(<< >>, 19),
          Chop(Run(<< >>, BullBig, 2), 3), Chop(Run(<< >>, BearPin, 3), 18)}
    \cup {RisingWindow(Rise3), RisingWindow(HighStart)}
    \cup {Run(Chop(<< >>, 4), SpinDn, 1), Squeeze}

\* bar closes per run of the function-level specification
MaxFeatBars == 1

InitFeat ==
    /\ candles \in FeatHistories
    /\ closed = 0
    /\ min_tier = "NONE"
    /\ debug = FALSE
    /\ result = Pending
    /\ ProbeIdle

\* the buffer takes a bar; what was computed on the old window is dropped
AppendFeatCandle(sh) ==
    /\ closed < MaxFeatBars
    /\ candles' = Append(candles, MkCandle(LastClose(candles), sh))
    /\ closed' = closed + 1
    /\ result' = Pending
    /\ features' = EmptyFeatures
    /\ cats' = NoCats
    /\ opp' = NoOpp
    /\ side' = "none"
    /\ rejected' = FALSE
    /\ UNCHANGED <<min_tier, debug, levels, tier, cycle>>

\* steps 2, 3 and 5 of the cycle for the candidate side s
Evaluate(s) ==
    /\ candles # << >>
    /\ features' = compute_features(candles)
    /\ cats' = eval_all_categories(features')
    /\ opp' = aggregate_opportunity(features', cats')
    /\ side' = s
    /\ rejected' = _fails_anti_countertrend_filter(s, features')
    /\ UNCHANGED <<candles, closed, min_tier, debug, result, levels, tier, cycle>>

NextFeat ==
    \/ \E sh \in FeatShapes \cup {ShapeC} : AppendFeatCandle(sh)
    \/ \E s \in {"long", "short"} : Evaluate(s)
    \/ Analyze

SpecFeat == InitFeat /\ [][NextFeat]_vars

(***************************************************************************)
(* aggregate_opportunity applied to arbitrary category results: every      *)
(* assignment of a bias to the seven categories, at three levels of score. *)
(***************************************************************************)
Biases == {"none", "long", "short"}

\* the ceiling of each category, in points
Ceiling == [elr |-> 25, far |-> 30, cec |-> 20, mc |-> 12,
            vsde |-> 12, awp |-> 15, hbp |-> 10]

\* the score of category k at level lv: half a point, a fifth of the
\* ceiling, the ceiling
LevelScore(k, lv) ==
    IF lv = 1 THEN Q \div 2
    ELSE IF lv = 2 THEN (Ceiling[k] * Q) \div 5
    ELSE Ceiling[k] * Q

AggCats ==
    {[k \in CatNames |-> [score |-> LevelScore(k, lv), bias |-> b[k]]] :
        b \in [CatNames -> Biases], lv \in 1..3}

\* the fields of the feature record aggregate_opportunity reads
AggFeatures ==
    {[chop_score |-> c, htf_dom |-> h[1], htf_drift |-> h[2]] :
        c \in {0, chop_low_threshold, chop_high_threshold},
        h \in {<<"none", "flat">>, <<"bear", "down">>, <<"bull", "up">>}}

InitAgg ==
    /\ candles = << >>
    /\ closed = 0
    /\ min_tier = ""
    /\ debug = FALSE
    /\ result = Pending
    /\ features \in AggFeatures
    /\ cats \in AggCats
    /\ opp = NoOpp
    /\ side = "none"
    /\ rejected = FALSE
    /\ levels = Pending
    /\ tier = "NONE"
    /\ cycle = NoCycles

\* step 3 of the cycle
Aggregate ==
    /\ opp' = aggregate_opportunity(features, cats)
    /\ UNCHANGED <<candles, closed, min_tier, debug, result,
                   features, cats, side, rejected, levels, tier, cycle>>

\* aggregate_opportunity called again on the same features after category k,
\* biased to the winning direction, moved from the common level to level lv
Raise(k, lv) ==
    /\ opp.direction \in {"long", "short"}
    /\ cats[k].bias = opp.direction
    /\ \E l0 \in 1..2 :
          /\ l0 < lv
          /\ \A j \in CatNames : cats[j].score = LevelScore(j, l0)
    /\ cats' = [cats EXCEPT ![k].score = LevelScore(k, lv)]
    /\ opp' = aggregate_opportunity(features, cats')
    /\ UNCHANGED <<candles, closed, min_tier, debug, result,
                   features, side, rejected, levels, tier, cycle>>

NextAgg ==
    \/ Aggregate
    \/ \E k \in CatNames, lv \in 2..3 : Raise(k, lv)

SpecAgg == InitAgg /\ [][NextAgg]_vars

(***************************************************************************)
(* build_levels applied to short windows, flat candles and candles at      *)
(* price 0 included, for either side and scores over [0, 150].             *)
(***************************************************************************)
Flat == [gap |-> 0, body |-> 0, up |-> 0, dn |-> 0]
Small == [gap |-> 0, body |-> 0, up |-> 1, dn |-> 0]
Huge == [gap |-> 0, body |-> 30, up |-> 5, dn |-> 5]
Slide == [gap |-> 0, body |-> -2, up |-> 0, dn |-> 0]
LevelShapes == {Flat, Small, Huge, Slide, ShapeC, BullPin}

\* a flat candle at price p
At(p) == [open |-> p, close |-> p, high |-> p, low |-> p]

\* prices are not negative, and a candle at price 0 is not flat
WellFormed(c) == c.low >= 0 /\ (c.high = c.low => c.low > 0)

LevelHistories ==
    {<<At(2 * Q)>>, <<At(BasePrice)>>, Run(<<At(BasePrice)>>, Small, 12)}

LevelScores == {0, 35 * Q, 70 * Q, 75 * Q, 100 * Q, 150 * Q}

\* bar closes per run of the level specification
MaxLevelBars == 2

InitLevels ==
    /\ candles \in LevelHistories
    /\ closed = 0
    /\ min_tier = ""
    /\ debug = FALSE
    /\ result = Pending
    /\ ProbeIdle

AppendLevelCandle(sh) ==
    /\ closed < MaxLevelBars
    /\ WellFormed(MkCandle(LastClose(candles), sh))
    /\ candles' = Append(candles, MkCandle(LastClose(candles), sh))
    /\ closed' = closed + 1
    /\ features' = EmptyFeatures
    /\ opp' = NoOpp
    /\ side' = "none"
    /\ levels' = Pending
    /\ UNCHANGED <<min_tier, debug, result, cats, rejected, tier, cycle>>

\* step 6 of the cycle for side s and an opportunity of score sc
BuildLevels(s, sc) ==
    /\ features' = compute_features(candles)
    /\ opp' = [score |-> sc, direction |-> s]
    /\ side' = s
    /\ levels' = build_levels(s, candles, features', opp')
    /\ UNCHANGED <<candles, closed, min_tier, debug, result, cats, rejected, tier, cycle>>

NextLevels ==
    \/ \E sh \in LevelShapes : AppendLevelCandle(sh)
    \/ \E s \in {"long", "short"}, sc \in LevelScores : BuildLevels(s, sc)

SpecLevels == InitLevels /\ [][NextLevels]_vars

(***************************************************************************)
(* Steps 8-10 of the cycle, _tier_from_score and _should_send_tier,        *)
(* applied to a candidate that passed the gates, for scores on and around  *)
(* the tier thresholds and every configured minimum tier.                  *)
(***************************************************************************)
TierWindow == Run(History(<<13, 26>>), ShapeC, 1)

TierScores ==
    {0, 60 * Q, 70 * Q - 1, 70 * Q, 75 * Q, 80 * Q - 1, 80 * Q, 82 * Q,
     85 * Q - 1, 85 * Q, 90 * Q, 100 * Q, 150 * Q}

InitTier ==
    /\ candles = TierWindow
    /\ closed = 0
    /\ min_tier = ""
    /\ debug = FALSE
    /\ result = Pending
    /\ features = compute_features(TierWindow)
    /\ cats = eval_all_categories(features)
    /\ opp = aggregate_opportunity(features, cats)
    /\ side = "long"
    /\ rejected = FALSE
    /\ levels = build_levels("long", TierWindow, features, opp)
    /\ tier = "NONE"
    /\ cycle = NoCycles

\* the candidate comes with the score sc
SetScore(sc) ==
    /\ sc # opp.score
    /\ opp' = [opp EXCEPT !.score = sc]
    /\ levels' = build_levels(side, candles, features, opp')
    /\ tier' = "NONE"
    /\ result' = Pending
    /\ UNCHANGED <<candles, closed, min_tier, debug, features, cats, side, rejected, cycle>>

\* steps 8-10: tier, minimum-tier filter, record
Emit ==
    /\ tier' = _tier_from_score(opp.score)
    /\ result' = EmitRecord(Symbol, side, features, cats, opp.score, levels, min_tier)
    /\ UNCHANGED <<candles, closed, min_tier, debug, features, cats, opp, side,
                   rejected, levels, cycle>>

NextTier ==
    \/ \E sc \in TierScores : SetScore(sc)
    \/ \E t \in MinTiers : SetMinTier(t)
    \/ Emit

SpecTier == InitTier /\ [][NextTier]_vars

(***************************************************************************)
(* Cycles of two instruments, interleaved.  A cycle is analyze_symbol_     *)
(* behaviour taken one numbered step of the source at a time; its candles, *)
(* features, cats, opp, side and levels are locals of that call.  The      *)
(* settings, state.min_tier and state.debug are shared and only read.      *)
(***************************************************************************)
Symbols == {"btcusdt", "ethusdt"}

\* the windows a cycle may be called with
ParWindows ==
    {TierWindow, Run(History(<<13, 27>>), ShapeC, 1), History(<<13, 27>>),
     History(<<2, 1>>)}

\* a call of analyze_symbol_behaviour(symbol, candles_5m) that has not run yet
Called(candles_5m) ==
    [pc |-> "called", candles |-> candles_5m, features |-> EmptyFeatures,
     cats |-> NoCats, opp |-> NoOpp, side |-> "none", levels |-> Pending,
     result |-> Pending]

Return(c, r) == [c EXCEPT !.pc = "done", !.result = r]

\* the length gate
StepCalled(c) ==
    IF Len(c.candles) < min_candles THEN Return(c, NoSignal)
    ELSE [c EXCEPT !.pc = "features"]

\* 1) features
StepFeatures(c) ==
    LET f == compute_features(c.candles)
    IN  IF IsEmptyFeatures(f) THEN Return(c, NoSignal)
        ELSE [c EXCEPT !.pc = "categories", !.features = f]

\* 2) categories
StepCategories(c) ==
    [c EXCEPT !.pc = "aggregate", !.cats = eval_all_categories(c.features)]

\* 3) aggregate, 4) minimum score
StepAggregate(c) ==
    LET o == aggregate_opportunity(c.features, c.cats)
    IN  IF o.direction = "none" THEN Return([c EXCEPT !.opp = o], NoSignal)
        ELSE IF o.score < min_score_to_send THEN Return([c EXCEPT !.opp = o], NoSignal)
        ELSE [c EXCEPT !.pc = "filter", !.opp = o,
                       !.side = IF o.direction = "long" THEN "long" ELSE "short"]

\* 5) anti-countertrend filter
StepFilter(c) ==
    IF _fails_anti_countertrend_filter(c.side, c.features) THEN Return(c, NoSignal)
    ELSE [c EXCEPT !.pc = "levels"]

\* 6) levels, 7) RR of TP2
StepLevels(c) ==
    LET l == build_levels(c.side, c.candles, c.features, c.opp)
        risk == Abs(l.entry - l.sl)
    IN  IF risk <= 0 THEN Return([c EXCEPT !.levels = l], NoSignal)
        ELSE IF FDiv(Abs(l.tp2 - l.entry), risk) < min_rr_tp2
             THEN Return([c EXCEPT !.levels = l], NoSignal)
        ELSE [c EXCEPT !.pc = "tier", !.levels = l]

\* 8) tier and minimum tier, 9-10) the record
StepTier(c, symbol, state_min_tier) ==
    Return(c, EmitRecord(symbol, c.side, c.features, c.cats, c.opp.score,
                         c.levels, state_min_tier))

\* the next step of the call c
CycleStep(c, symbol, state_min_tier) ==
    CASE c.pc = "called" -> StepCalled(c)
      [] c.pc = "features" -> StepFeatures(c)
      [] c.pc = "categories" -> StepCategories(c)
      [] c.pc = "aggregate" -> StepAggregate(c)
      [] c.pc = "filter" -> StepFilter(c)
      [] c.pc = "levels" -> StepLevels(c)
      [] c.pc = "tier" -> StepTier(c, symbol, state_min_tier)

InitPar ==
    /\ candles = << >>
    /\ closed = 0
    /\ min_tier \in {"", "B"}
    /\ debug \in BOOLEAN
    /\ result = Pending
    /\ features = EmptyFeatures
    /\ cats = NoCats
    /\ opp = NoOpp
    /\ side = "none"
    /\ rejected = FALSE
    /\ levels = Pending
    /\ tier = "NONE"
    /\ cycle \in [Symbols -> {Called(w) : w \in ParWindows}]

\* a step that keeps the features in a module-level variable
StepSharedFeatures(s) ==
    /\ cycle[s].pc # "done"
    /\ cycle' = [t \in Symbols |->
                   IF t = s THEN CycleStep(cycle[s], s, min_tier)
                   ELSE IF cycle[s].pc = "features"
                   THEN [cycle[t] EXCEPT !.features = compute_features(cycle[s].candles)]
                   ELSE cycle[t]]
    /\ UNCHANGED <<candles, closed, min_tier, debug, result,
                   features, cats, opp, side, rejected, levels, tier>>

\* the cycle of symbol s takes its next step
Step(s) ==
    /\ cycle[s].pc # "done"
    /\ cycle' = [cycle EXCEPT ![s] = CycleStep(cycle[s], s, min_tier)]
    /\ UNCHANGED <<candles, closed, min_tier, debug, result,
                   features, cats, opp, side, rejected, levels, tier>>

NextPar == \E s \in Symbols : Step(s)

SpecPar == InitPar /\ [][NextPar]_vars

(***************************************************************************)
(* Steps 2, 3 and 8 of the cycle on feature records taken field by field:  *)
(* every field the categories and the aggregator read takes a value on     *)
(* each side of each threshold it is compared with, and the value at which *)
(* the score it feeds is largest.  The records of real windows fall in the *)
(* same regions.                                                           *)
(***************************************************************************)
\* <<has_flush, flush_depth>>: no flush, a flush far beyond the minimum depth
FlushValues == {<<FALSE, 0>>, <<TRUE, 2 * Q>>}

\* <<avg_up_wick, avg_down_wick>>: no wicks, lower wicks 3 x the upper ones,
\* upper wicks 3 x the lower ones
WickValues == {<<0, 0>>, <<Q, 3 * Q>>, <<3 * Q, Q>>}

\* <<htf_dom, htf_drift>>
HtfValues == {"none", "bull", "bear"} \X {"flat", "up", "down"}

\* the values of <<net_flow, body_trend, range_trend, wick_bias,
\* pos_in_range, chop_score, flush down, flush up, wicks, HTF, htf_wick_bias>>
FieldValues ==
    {-5 * Q, 0, 5 * Q}
    \X {-250, -100, 0}
    \X {-200, -70, 0}
    \X {"buy", "sell", "mixed"}
    \X {0, 500, Q}
    \X {0, chop_low_threshold, chop_high_threshold + Q}
    \X FlushValues
    \X FlushValues
    \X WickValues
    \X HtfValues
    \X {"buy", "sell", "mixed"}

\* the feature record with the field values v
FeatureRecord(v) ==
    [net_flow |-> v[1], bull_count |-> 20, bear_count |-> 20,
     body_trend |-> v[2], range_trend |-> v[3],
     wick_bias |-> v[4], pos_in_range |-> v[5], chop_score |-> v[6],
     has_flush_down |-> v[7][1], flush_depth_down |-> v[7][2],
     has_flush_up |-> v[8][1], flush_depth_up |-> v[8][2],
     avg_up_wick |-> v[9][1], avg_down_wick |-> v[9][2],
     htf_dom |-> v[10][1], htf_drift |-> v[10][2], htf_wick_bias |-> v[11]]

InitRecords ==
    /\ candles = << >>
    /\ closed = 0
    /\ min_tier = ""
    /\ debug = FALSE
    /\ result = Pending
    /\ \E v \in FieldValues : features = FeatureRecord(v)
    /\ cats = NoCats
    /\ opp = NoOpp
    /\ side = "none"
    /\ rejected = FALSE
    /\ levels = Pending
    /\ tier = "NONE"
    /\ cycle = NoCycles

\* categories, aggregation and tier of the record
Classify ==
    /\ opp = NoOpp
    /\ cats' = eval_all_categories(features)
    /\ opp' = aggregate_opportunity(features, cats')
    /\ tier' = _tier_from_score(opp'.score)
    /\ UNCHANGED <<candles, closed, min_tier, debug, result,
                   features, side, rejected, levels, cycle>>

NextRecords == Classify

SpecRecords == InitRecords /\ [][NextRecords]_vars

(***************************************************************************)
(* Claims                                                                  *)
(***************************************************************************)
\* the reward:risk of TP2 as the analyzer computes it from a returned record
RecordRR2(r) == FDiv(Abs(r.tp2 - r.entry), Abs(r.entry - r.sl))

\* the opportunity the pipeline aggregates for the current buffer
CurrentOpp ==
    aggregate_opportunity(compute_features(candles),
                          eval_all_categories(compute_features(candles)))

\* C1: a returned SignalRecord passed every gate: the aggregated direction is
\* long or short, the side equals it, the score is at least
\* min_score_to_send, the risk |entry - sl| is positive and the reward:risk
\* of TP2 is at least min_rr_tp2; a cycle that fails one returns no signal.
C1_SignalOnlyIfAllGatesPass ==
    result.kind = "signal" =>
        /\ CurrentOpp.direction \in {"long", "short"}
        /\ result.side = CurrentOpp.direction
        /\ result.score = CurrentOpp.score
        /\ result.score >= min_score_to_send
        /\ Abs(result.entry - result.sl) > 0
        /\ RecordRR2(result) >= min_rr_tp2

\* a cycle returned a signal
C1_Witness ==
    /\ result.kind = "signal"
    /\ result.score >= min_score_to_send
    /\ Len(candles) >= min_candles

\* C2: a window shorter than min_candles, the empty one included, never
\* yields a SignalRecord: the cycle returns no signal.
C2_ShortWindowNoSignal ==
    (Len(candles) < min_candles /\ result.kind # "pending") => result = NoSignal

\* a cycle on a window of min_candles - 1 candles returned no signal
C2_Witness ==
    /\ result = NoSignal
    /\ Len(candles) = min_candles - 1

\* the score of a category result, an opportunity or a chop value lies in [0, top]
InRange(x, top) == 0 <= x /\ x <= top * Q

\* C3: for the feature record of every window, chop_score is in [0,100], the
\* category scores are in their ranges (ELR 25, FAR 30, CEC 20, MC 12,
\* VSDE 12, AWP 15, HBP 10) and the opportunity score is in [0,150].
C3_ScoresInRange ==
    side # "none" =>
        /\ InRange(features.chop_score, 100)
        /\ InRange(cats.elr.score, 25)
        /\ InRange(cats.far.score, 30)
        /\ InRange(cats.cec.score, 20)
        /\ InRange(cats.mc.score, 12)
        /\ InRange(cats.vsde.score, 12)
        /\ InRange(cats.awp.score, 15)
        /\ InRange(cats.hbp.score, 10)
        /\ InRange(opp.score, 150)

\* a window whose flush drives FAR to its ceiling, with a positive
\* opportunity score and a positive chop score
C3_Witness ==
    /\ side # "none"
    /\ cats.far.score = 30 * Q
    /\ opp.score > 0
    /\ features.chop_score > 0

\* 'strong bear' as the claim words it: the count margin alone, or the HTF pair
StrongBearByCount(f) ==
    \/ f.bear_count * Q > FMul(f.bull_count * Q, 1200)
    \/ f.htf_dom = "bear" /\ f.htf_drift = "down"

StrongBullByCount(f) ==
    \/ f.bull_count * Q > FMul(f.bear_count * Q, 1200)
    \/ f.htf_dom = "bull" /\ f.htf_drift = "up"

\* C5 as stated: every long candidate in a strong-bear record (bear_count
\* above 1.2 x bull_count, or HTF bear with drift down) without a downward
\* flush is rejected, and every short one in a strong-bull record without an
\* upward flush.
C5_Original ==
    /\ (side = "long" /\ StrongBearByCount(features) /\ ~features.has_flush_down)
           => rejected
    /\ (side = "short" /\ StrongBullByCount(features) /\ ~features.has_flush_up)
           => rejected

\* 'strong bear' with the count margin tied to a negative net flow
StrongBearWithFlow(f) ==
    \/ f.bear_count * Q > FMul(f.bull_count * Q, 1200) /\ f.net_flow < 0
    \/ f.htf_dom = "bear" /\ f.htf_drift = "down"

StrongBullWithFlow(f) ==
    \/ f.bull_count * Q > FMul(f.bear_count * Q, 1200) /\ f.net_flow > 0
    \/ f.htf_dom = "bull" /\ f.htf_drift = "up"

\* C5 (amended): the gate rejects every long candidate whose record is
\* strong bear (bear_count above 1.2 x bull_count together with a negative
\* net flow, or HTF bear with drift down) and has no downward flush, and every
\* short candidate whose record is strong bull (mirrored) and has no upward
\* flush; no signal of the cycle is long in such a bear record or short in
\* such a bull record.
C5_AntiCountertrendGate ==
    /\ (side = "long" /\ StrongBearWithFlow(features) /\ ~features.has_flush_down)
           => rejected
    /\ (side = "short" /\ StrongBullWithFlow(features) /\ ~features.has_flush_up)
           => rejected
    /\ (result.kind = "signal" /\ result.side = "long")
           => ~(StrongBearWithFlow(result.features) /\ ~result.features.has_flush_down)
    /\ (result.kind = "signal" /\ result.side = "short")
           => ~(StrongBullWithFlow(result.features) /\ ~result.features.has_flush_up)

\* a short candidate was rejected in a strong-bull record without upward flush
C5_Witness ==
    /\ side = "short"
    /\ StrongBullWithFlow(features)
    /\ ~features.has_flush_up
    /\ rejected

\* C4: aggregate_opportunity returns score 0 whenever it returns direction
\* none; when all seven category results have bias none the direction is
\* none and the score 0, whatever their scores.
C4_NoDirectionNoScore ==
    opp # NoOpp =>
        /\ opp.direction = "none" => opp.score = 0
        /\ (\A k \in CatNames : cats[k].bias = "none")
               => (opp.direction = "none" /\ opp.score = 0)

\* seven results at their ceilings, all with bias none, were aggregated
C4_Witness ==
    /\ opp # NoOpp
    /\ \A k \in CatNames : cats[k].bias = "none" /\ cats[k].score = Ceiling[k] * Q
    /\ opp.direction = "none"
    /\ opp.score = 0

\* C6: in every LevelSet build_levels returns, sl_pct is |entry - sl| / entry
\* x 100 of the entry and sl of that LevelSet, on every path; with entry 0,
\* where the quotient does not exist, sl_pct is 0.
C6_SlPctFromFinalPair ==
    levels # Pending =>
        IF levels.entry # 0
        THEN levels.sl_pct
                 = FMul(FDiv(Abs(levels.entry - levels.sl), levels.entry), 100 * Q)
        ELSE levels.sl_pct = 0

\* a LevelSet built on the zero-risk fallback path carries the 0.3% stop
C6_Witness ==
    /\ levels # Pending
    /\ AdjustedStop(side, candles, features) = levels.entry
    /\ levels.entry > 0
    /\ levels.sl_pct = 300

\* C7: a LevelSet built for side long has tp1 <= tp2 <= tp3, one built for
\* side short tp1 >= tp2 >= tp3, for every score in [0, 150].
C7_TargetsOrdered ==
    levels # Pending =>
        /\ side = "long" => (levels.tp1 <= levels.tp2 /\ levels.tp2 <= levels.tp3)
        /\ side = "short" => (levels.tp1 >= levels.tp2 /\ levels.tp2 >= levels.tp3)

\* a short LevelSet at the top score with three distinct targets below entry
C7_Witness ==
    /\ levels # Pending
    /\ side = "short"
    /\ opp.score = 150 * Q
    /\ levels.entry > levels.tp1
    /\ levels.tp1 > levels.tp2
    /\ levels.tp2 > levels.tp3

\* C8: the risk |entry - sl| of a LevelSet is positive; when the adjusted
\* stop equals the entry the stop is 0.3% of the entry away on the loss side
\* (below a long entry, above a short one); an entry of 0 gives sl_pct 0.
C8_RiskPositive ==
    levels # Pending =>
        /\ Abs(levels.entry - levels.sl) > 0
        /\ AdjustedStop(side, candles, features) = levels.entry =>
               /\ Abs(levels.entry - levels.sl) = FMul(Abs(levels.entry), 3)
               /\ side = "long" => levels.sl < levels.entry
               /\ side = "short" => levels.sl > levels.entry
        /\ levels.entry = 0 => levels.sl_pct = 0

\* a short LevelSet whose adjusted stop equalled the entry
C8_Witness ==
    /\ levels # Pending
    /\ side = "short"
    /\ AdjustedStop(side, candles, features) = levels.entry
    /\ levels.sl > levels.entry

\* the rank of a tier in NONE < B < A < A+
TierRank(t) == CASE t = "NONE" -> 0 [] t = "B" -> 1 [] t = "A" -> 2 [] t = "A+" -> 3

\* the configured minimum tier, an unset one counting as A
ConfiguredMinTier == IF min_tier = "" THEN "A" ELSE min_tier

\* C9: the tier of a score is A+ from a_plus_score (85), A from
\* min_score_to_send + 10, B from min_score_to_send, NONE below; a
\* SignalRecord is emitted only if its tier ranks at or above the configured
\* minimum tier in NONE < B < A < A+, an unset minimum counting as A.
C9_TierAndMinTier ==
    result.kind # "pending" =>
        /\ tier = (IF opp.score >= 85 * Q THEN "A+"
                   ELSE IF opp.score >= min_score_to_send + 10 * Q THEN "A"
                   ELSE IF opp.score >= min_score_to_send THEN "B"
                   ELSE "NONE")
        /\ result.kind = "signal" =>
               /\ result.tier = tier
               /\ TierRank(tier) >= TierRank(ConfiguredMinTier)

\* a record of tier A was emitted under an unset minimum tier
C9_Witness ==
    /\ result.kind = "signal"
    /\ min_tier = ""
    /\ tier = "A"
    /\ opp.score = 80 * Q

\* C11: cycles of different instruments interleaved in any order each return
\* what they return run alone, and a step of a cycle leaves state.min_tier,
\* state.debug and the candle sequence of every cycle unchanged.
C11_InterleavedCyclesIndependent ==
    /\ [](\A s \in Symbols :
            cycle[s].pc = "done" =>
                cycle[s].result
                    = analyze_symbol_behaviour(s, cycle[s].candles, min_tier, debug))
    /\ [][/\ min_tier' = min_tier
          /\ debug' = debug
          /\ \A s \in Symbols : cycle'[s].candles = cycle[s].candles]_vars

\* both cycles are done, one with a signal and one without, on different windows
C11_Witness ==
    /\ cycle # NoCycles
    /\ cycle["btcusdt"].pc = "done"
    /\ cycle["ethusdt"].pc = "done"
    /\ cycle["btcusdt"].result.kind = "signal"
    /\ cycle["ethusdt"].result = NoSignal
    /\ Len(cycle["ethusdt"].candles) >= min_candles

\* the score of an aggregation before the chop and HTF multipliers
PreDampening(o) ==
    (IF o.direction = "long" THEN o.bias_long_score ELSE o.bias_short_score)
    + FMul(500, o.components.mc.score)

\* C12: raising the score of a category biased to the winning direction, the
\* other six results and the features held fixed, keeps the direction and
\* does not lower winning-side sum + 0.5 x MC score.
C12_RaisingWinnerMonotone ==
    [][(opp.direction \in {"long", "short"} /\ cats' # cats)
          => /\ opp'.direction = opp.direction
             /\ PreDampening(opp') >= PreDampening(opp)]_vars

\* a raised aggregation: MC carries the winning bias and sits above the
\* other categories, so both the side sum and the MC half-weight grew
C12_Witness ==
    /\ opp.direction = "short"
    /\ opp.components.mc.bias = "short"
    /\ opp.components.mc.score = LevelScore("mc", 3)
    /\ opp.components.far.score = LevelScore("far", 1)
    /\ opp.bias_short_score > LevelScore("mc", 3)

\* C14: the direction is none when both side sums are below 1.0; it is long
\* only with long sum > 1.3 x short sum, short only with short sum > 1.3 x
\* long sum, and none whenever neither strict margin holds, equality with
\* the margin included.
C14_ChooseDirectionMargin ==
    opp # NoOpp =>
        LET long == opp.bias_long_score
            short == opp.bias_short_score
        IN  /\ opp.direction \in {"none", "long", "short"}
            /\ (long < 1000 /\ short < 1000) => opp.direction = "none"
            /\ opp.direction = "long" => long * 1000 > short * 1300
            /\ opp.direction = "short" => short * 1000 > long * 1300
            /\ (long * 1000 <= short * 1300 /\ short * 1000 <= long * 1300)
                   => opp.direction = "none"

\* a long sum of 7.8 against a short sum of 6.0: exactly the 1.3 margin
C14_Witness ==
    /\ opp # NoOpp
    /\ opp.bias_short_score = 6 * Q
    /\ opp.bias_long_score * 1000 = opp.bias_short_score * 1300
    /\ opp.direction = "none"

\* the chop multiplier and the counter-HTF multiplier of the claim, in
\* thousandths
ChopFactor(f) ==
    IF f.chop_score >= chop_high_threshold THEN 350
    ELSE IF f.chop_score >= chop_low_threshold THEN 700
    ELSE 1000

HtfFactor(f, direction) ==
    IF \/ direction = "long" /\ f.htf_dom = "bear" /\ f.htf_drift = "down"
       \/ direction = "short" /\ f.htf_dom = "bull" /\ f.htf_drift = "up"
    THEN 600
    ELSE 1000

\* C15: with a direction, score = clamp((winning-side sum + 0.5 x MC score)
\* x c x h, 0, 150) with c = 0.35 / 0.7 / 1 by chop_score >= the high / low
\* threshold and h = 0.6 against a confirmed HTF; an MC result, which has no
\* bias, leaves the direction what it is without MC.
C15_AggregatedScore ==
    opp # NoOpp =>
        /\ opp.direction \in {"long", "short"} =>
              opp.score
                  = Max(0, Min((((PreDampening(opp) * ChopFactor(features)) \div Q)
                                   * HtfFactor(features, opp.direction)) \div Q,
                               150 * Q))
        /\ opp.components.mc.bias = "none" =>
              opp.direction
                  = _choose_direction([opp.components EXCEPT !.mc.score = 0]).direction

\* a short against a confirmed bull HTF at chop_score equal to the high
\* threshold, with a scoring MC: both multipliers and the MC half-weight apply
C15_Witness ==
    /\ opp # NoOpp
    /\ opp.direction = "short"
    /\ features.chop_score = chop_high_threshold
    /\ features.htf_dom = "bull"
    /\ features.htf_drift = "up"
    /\ opp.components.mc.bias = "none"
    /\ opp.components.mc.score = LevelScore("mc", 3)
    /\ opp.score > 0
    /\ opp.score < PreDampening(opp)

\* a full feature window of bars that open on the previous close, close
\* higher, have no wicks and a body of at most 5% of the open
IsRisingWindow(cs) ==
    /\ Len(cs) = feature_window
    /\ \A i \in 1..Len(cs) :
          /\ cs[i].close > cs[i].open
          /\ cs[i].high = cs[i].close
          /\ cs[i].low = cs[i].open
          /\ (cs[i].close - cs[i].open) * 20 <= cs[i].open
          /\ i > 1 => cs[i].open = cs[i - 1].close

\* the close rose by more than 0.15% over the HTF segment
HtfRiseAboveTolerance(cs) ==
    LET first_close == cs[Len(cs) - htf_window + 1].close
    IN  (cs[Len(cs)].close - first_close) * 2000 > 3 * first_close

\* C13 as stated: every such window has htf_dom bull and htf_drift up, and a
\* short candidate without upward flush is rejected.
C13_Original ==
    (IsRisingWindow(candles) /\ ~IsEmptyFeatures(features)) =>
        /\ features.htf_dom = "bull"
        /\ features.htf_drift = "up"
        /\ (side = "short" /\ ~features.has_flush_up) => rejected

\* C13: a 40-bar rising window with small bodies and no wicks whose close
\* rises by more than htf_drift_tolerance_pct over the last 12 bars has
\* htf_dom bull and htf_drift up, and a short candidate on it without upward
\* flush is rejected.
C13_ScenarioA ==
    (/\ IsRisingWindow(candles)
     /\ HtfRiseAboveTolerance(candles)
     /\ ~IsEmptyFeatures(features)) =>
        /\ features.htf_dom = "bull"
        /\ features.htf_drift = "up"
        /\ (side = "short" /\ ~features.has_flush_up) => rejected

\* the short candidate on the rising window at the base price
C13_Witness ==
    /\ IsRisingWindow(candles)
    /\ HtfRiseAboveTolerance(candles)
    /\ ~IsEmptyFeatures(features)
    /\ side = "short"
    /\ ~features.has_flush_up
    /\ rejected

\* the chop multiplier of each category, in thousandths
ChopMultiplier == [elr |-> 400, far |-> 500, cec |-> 300, mc |-> 500,
                   vsde |-> 400, awp |-> 700]

\* the features with chop_score moved to c
WithChop(f, c) == [f EXCEPT !.chop_score = c]

\* C16: whenever chop_score is at or above chop_high_threshold, where the
\* aggregator multiplies by 0.35, each of ELR, FAR, CEC, MC, VSDE and AWP
\* returns what it returns above the threshold, and a score under its
\* ceiling is the calm score times the category's chop multiplier.
C16_ChopHighAgreement ==
    (~IsEmptyFeatures(features) /\ features.chop_score >= chop_high_threshold) =>
        \A k \in DOMAIN ChopMultiplier :
            LET calm == eval_all_categories(WithChop(features, 0))[k]
                high == eval_all_categories(
                            WithChop(features, chop_high_threshold + 1))[k]
            IN  /\ cats[k] = high
                /\ calm.score < Ceiling[k] * Q
                      => cats[k].score = FMul(calm.score, ChopMultiplier[k])

\* C17: each of ELR, FAR, CEC, VSDE and AWP returns a positive score only
\* together with a long or short bias: bias none comes with score 0, on
\* every feature record, net_flow = 0 included.
C17_BiasNoneScoreZero ==
    ~IsEmptyFeatures(features) =>
        \A k \in {"elr", "far", "cec", "vsde", "awp"} :
            cats[k].bias = "none" => cats[k].score = 0

\* the two pivot conditions of eval_hbp as the claim words them
PivotLong(f) ==
    (f.htf_dom = "bear" \/ f.htf_drift = "down") /\ f.htf_wick_bias = "buy"

PivotShort(f) ==
    (f.htf_dom = "bull" \/ f.htf_drift = "up") /\ f.htf_wick_bias = "sell"

RawRisk ==
    LET last == candles[Len(candles)]
    IN  Abs(LevelEntry(side, last) - LevelRawStop(side, last, features.avg_range))

\* C19: with a positive local mean range the final risk |entry - sl| is at
\* least the noise floor and at most max_risk_factor x the local mean range;
\* a raw risk below the floor becomes exactly the floor, one above the cap
\* exactly the cap, and the floor never exceeds the cap.
C19_RiskBetweenFloorAndCap ==
    levels # Pending =>
        LET nf == _compute_noise_floor(candles, features)
            floor == nf[1]
            cap == FMul(max_risk_factor, nf[2])
            risk == Abs(levels.entry - levels.sl)
        IN  nf[2] > 0 =>
                /\ floor <= risk
                /\ risk <= cap
                /\ floor <= cap
                /\ RawRisk < floor => risk = floor
                /\ RawRisk > cap => risk = cap

\* a long LevelSet whose raw stop sat inside the noise floor and was pushed
\* out to it
C19_Witness ==
    /\ levels # Pending
    /\ side = "long"
    /\ _compute_noise_floor(candles, features)[2] > 0
    /\ RawRisk > 0
    /\ RawRisk < _compute_noise_floor(candles, features)[1]
    /\ levels.entry - levels.sl = _compute_noise_floor(candles, features)[1]

\* C20: a long entry is min(low + 0.25 x range, close) of the last candle, a
\* short entry max(high - 0.25 x range, close), with range = max(high - low,
\* 1e-9); a long entry is never above the last close, a short entry never
\* below it, and an entry that computes to 0 is the last close.
C20_EntryInsideCandle ==
    levels # Pending =>
        LET last == candles[Len(candles)]
            quarter == Max(last.high - last.low, Eps) \div 4
            entry0 == IF side = "long" THEN Min(last.low + quarter, last.close)
                      ELSE Max(last.high - quarter, last.close)
        IN  /\ entry0 # 0 => levels.entry = entry0
            /\ entry0 = 0 => levels.entry = last.close
            /\ side = "long" => levels.entry <= last.close
            /\ side = "short" => levels.entry >= last.close

\* a long entry a quarter of the range above the low, below the close
C20_Witness ==
    /\ levels # Pending
    /\ side = "long"
    /\ candles[Len(candles)].high > candles[Len(candles)].low
    /\ levels.entry < candles[Len(candles)].close
    /\ levels.entry > candles[Len(candles)].low

\* the tier of the feature record f
TierOfRecord(f) ==
    _tier_from_score(aggregate_opportunity(f, eval_all_categories(f)).score)

\* C21: under the default settings each of the tiers B, A and A+ is the tier
\* of some feature record, and with the minimum tier left unset (A) some
\* feature record has a tier the analyzer sends.
C21_EveryTierAttainable ==
    /\ min_tier = "" =>
          \E v \in FieldValues :
              _should_send_tier(TierOfRecord(FeatureRecord(v)), min_tier)
    /\ \A t \in {"B", "A", "A+"} :
          \E v \in FieldValues : TierOfRecord(FeatureRecord(v)) = t

\* every candle has low <= open, close <= high and a positive low
PositiveWellFormed(cs) ==
    \A i \in 1..Len(cs) :
        /\ cs[i].low > 0
        /\ cs[i].low <= Min(cs[i].open, cs[i].close)
        /\ Max(cs[i].open, cs[i].close) <= cs[i].high

\* the LevelSet passes the risk gate and the RR gate of steps 6-7
PassesLevelGates(l) ==
    /\ Abs(l.entry - l.sl) > 0
    /\ FDiv(Abs(l.tp2 - l.entry), Abs(l.entry - l.sl)) >= min_rr_tp2

\* C22: a LevelSet built from well-formed candles with positive prices that
\* passes the gates to emission has sl < entry < tp1, tp2, tp3 for a long
\* and sl > entry > tp1, tp2, tp3 for a short, whichever way the stop was
\* adjusted.
C22_StopAndTargetsOnTheirSides ==
    (levels # Pending /\ PositiveWellFormed(candles) /\ PassesLevelGates(levels)) =>
        /\ side = "long" =>
              /\ levels.sl < levels.entry
              /\ \A tp \in {levels.tp1, levels.tp2, levels.tp3} : levels.entry < tp
        /\ side = "short" =>
              /\ levels.sl > levels.entry
              /\ \A tp \in {levels.tp1, levels.tp2, levels.tp3} : levels.entry > tp

\* a long LevelSet that passes the gates, its stop pulled in to the cap
C22_Witness ==
    /\ levels # Pending
    /\ PositiveWellFormed(candles)
    /\ PassesLevelGates(levels)
    /\ side = "long"
    /\ RawRisk > FMul(max_risk_factor, _compute_noise_floor(candles, features)[2])
    /\ _compute_noise_floor(candles, features)[2] > 0
    /\ levels.sl < levels.entry
    /\ levels.entry < levels.tp1

\* the trailing feature_window candles of the buffer
Trailing == SubSeq(candles, Len(candles) - feature_window + 1, Len(candles))

\* the LevelSet of side s for the opportunity of the window cs
LevelsOf(s, cs) ==
    LET f == compute_features(cs)
    IN  build_levels(s, cs, f, aggregate_opportunity(f, eval_all_categories(f)))

\* C23: the cycle on a buffer of at least min_candles candles is the cycle
\* on its trailing feature_window candles: features (categories and
\* opportunity with them), the levels of either side and the result are
\* the same, so buffers that agree on the last 40 candles agree on all of
\* them.
C23_ResultFromTrailingWindow ==
    Len(candles) >= min_candles =>
        /\ compute_features(candles) = compute_features(Trailing)
        /\ \A s \in {"long", "short"} : LevelsOf(s, candles) = LevelsOf(s, Trailing)
        /\ analyze_symbol_behaviour(Symbol, candles, min_tier, debug)
               = analyze_symbol_behaviour(Symbol, Trailing, min_tier, debug)
        /\ result.kind # "pending" =>
               result = analyze_symbol_behaviour(Symbol, Trailing, min_tier, debug)

\* a signal on a buffer longer than the feature window whose older candles
\* would move the averages of the trailing ones
C23_Witness ==
    /\ Len(candles) > feature_window
    /\ result.kind = "signal"
    /\ _compute_basic_stats(candles) # _compute_basic_stats(Trailing)
=============================================================================
